---- MODULE Spec2Model ----
(***************************************************************************)
(* Customer / address CRUD service of server/index.js (the PostgreSQL      *)
(* handlers, lines 1-399), over a relational store with READ COMMITTED     *)
(* transactions.                                                           *)
(*                                                                         *)
(* One action of the model is one resumption of an async handler: the      *)
(* store statement the handler awaited, followed by the synchronous code   *)
(* that runs up to the next await (or to the end of the handler).          *)
(*                                                                         *)
(* Strings are TLA+ strings; "" stands for a field that is absent from the *)
(* request (undefined, null and "" are all falsy in the handlers' tests).  *)
(***************************************************************************)
EXTENDS Integers, Sequences, FiniteSets, TLC

\* Highest id the customers sequence hands out in a behaviour.
MaxCustomerId == 2
\* Highest id the addresses sequence hands out in a behaviour.
MaxAddressId == 2

\* Request slots: requests in flight at the same time.
Slots == {1, 2}

(***************************************************************************)
(* Text helpers                                                            *)
(***************************************************************************)
Digits == {"0", "1", "2", "3", "4", "5", "6", "7", "8", "9"}

CharAt(s, i) == SubSeq(s, i, i)

\* /^\d{n}$/.test(s)
IsDigitString(s, n) == Len(s) = n /\ \A i \in 1..n : CharAt(s, i) \in Digits

\* /^.{10}$/ : the length alone.
PhoneOk_LengthOnly(s) == Len(s) = 10

\* /^\d{10}$/.test(phone_number)
PhoneOk(s) == IsDigitString(s, 10)

\* /^\d{6}$/.test(pin_code)
PinOk(s) == IsDigitString(s, 6)

UpperChars == "ABCDEFGHIJKLMNOPQRSTUVWXYZ"
LowerChars == "abcdefghijklmnopqrstuvwxyz"

LowerChar(c) ==
  IF \E i \in 1..26 : CharAt(UpperChars, i) = c
  THEN CharAt(LowerChars, CHOOSE i \in 1..26 : CharAt(UpperChars, i) = c)
  ELSE c

RECURSIVE ToLower(_)
ToLower(s) == IF s = "" THEN "" ELSE LowerChar(CharAt(s, 1)) \o ToLower(SubSeq(s, 2, Len(s)))

\* String.prototype.trim, over the one whitespace character the inputs use.
RECURSIVE TrimLeft(_)
TrimLeft(s) == IF s # "" /\ CharAt(s, 1) = " " THEN TrimLeft(SubSeq(s, 2, Len(s))) ELSE s

RECURSIVE TrimRight(_)
TrimRight(s) ==
  IF s # "" /\ CharAt(s, Len(s)) = " " THEN TrimRight(SubSeq(s, 1, Len(s) - 1)) ELSE s

Trim(s) == TrimRight(TrimLeft(s))

\* t occurs in s as a substring.
Contains(s, t) == \E i \in 1..(Len(s) - Len(t) + 1) : SubSeq(s, i, i + Len(t) - 1) = t

\* column ILIKE '%term%', for a term without the wildcards % and _ .
\* A NULL column (an absent joined address) never matches.
ILike(col, term) == Contains(ToLower(col), ToLower(term))

(***************************************************************************)
(* Request inputs                                                          *)
(***************************************************************************)
Body(fn, ln, ph, ad, ci, st, pin) ==
  [first_name |-> fn, last_name |-> ln, phone_number |-> ph,
   address_details |-> ad, city |-> ci, state |-> st, pin_code |-> pin]

NoBody == Body("", "", "", "", "", "", "")

\* Bodies of POST /api/customers.
CreateBodies ==
  { Body("Ann", "Lee", "9876543210", "12 Elm", "Pune", "MH", "411001"),
    Body("Ann", "Lee", "9876543210", "9 Oak", "Agra", "UP", "282001"),
    Body("Bob", "Lee", "9876543210", "12 Elm", "Pune", "MH", "411001"),
    Body("", "Lee", "9876543210", "12 Elm", "Pune", "MH", "411001"),
    Body("Ann", "Lee", "98765", "12 Elm", "Pune", "MH", "411001"),
    Body("Ann", "Lee", "98765432x0", "12 Elm", "Pune", "MH", "411001"),
    Body("Ann", "Lee", "9876543210", "12 Elm", "Pune", "MH", "4110") }

\* Bodies of PUT /api/customers/:id.
UpdateBodies ==
  { Body("Ann", "Lee", "9876543210", "", "", "", ""),
    Body("Bob", "Lee", "9876543210", "9 Oak", "Agra", "UP", "282001"),
    Body("Bob", "Lee", "9876543210", "9 Oak", "", "UP", "282001"),
    Body("Bob", "Lee", "9876543210", "9 Oak", "Agra", "UP", "4110"),
    Body("Bob", "", "9876543210", "9 Oak", "Agra", "UP", "282001"),
    Body("Bob", "Lee", "98765432101", "9 Oak", "Agra", "UP", "282001") }

\* Address fields of POST /api/addresses, POST /api/customers/:id/addresses
\* and PUT /api/addresses/:id.
AddressBodies ==
  { Body("", "", "", "12 Elm", "Pune", "MH", "411001"),
    Body("", "", "", "9 Oak", "Agra", "UP", "282001"),
    Body("", "", "", "9 Oak", "Agra", "UP", "4110"),
    Body("", "", "", "9 Oak", "Agra", "", "282001") }

CustomerIds == 1..MaxCustomerId
AddressIds == 1..MaxAddressId

\* Values of the q query parameter ("" also stands for q left out).
SearchTerms == {"", "pune", "lee"}

\* Values of q with whitespace around the term, and of whitespace alone.
PaddedTerms == {"", " ", " pune", "pune ", " lee ", "elm", "9 oak"}

\* Values of the addressCount query parameter ("" stands for left out).
AddressCounts == {"", "single", "multiple", "all"}

(***************************************************************************)
(* State                                                                   *)
(***************************************************************************)
VARIABLES
  customers,       \* committed rows of table customers
  addresses,       \* committed rows of table addresses
  nextCustomerId,  \* next value of the customers id sequence
  nextAddressId,   \* next value of the addresses id sequence
  pc,              \* slot -> the await the handler is suspended at
  req,             \* slot -> the request being served
  tx,              \* slot -> uncommitted writes of the slot's transaction
  loc,             \* slot -> handler locals and what an observer of the request sees
  res              \* slot -> the response sent

vars == <<customers, addresses, nextCustomerId, nextAddressId, pc, req, tx, loc, res>>

NoReq == [kind |-> "none", id |-> 0, body |-> NoBody, q |-> "", addressCount |-> ""]

NoTx == [open |-> FALSE, insC |-> {}, insA |-> {}, updC |-> {}, delC |-> {}, delA |-> {}]

\* customerId: the id the create handler got back from its INSERT.
\* acquired / released: calls of db.getClient() that resolved / of client.release().
\* fault: the first store call of the request that failed ("" when none did).
\* rollbacks / commits: ROLLBACK / COMMIT statements issued.
\* found: rows the handler's first statement matched (-1 before it ran).
\* before: the committed tables as they were when the request arrived.
\* log: the store calls the request issued and the responses it sent, in order.
\* selected: customerResult.rows of GET /api/customers/:id.
\* history: the committed tables as they were at and between the two queries
\* of GET /api/customers/:id.
NoLoc == [customerId |-> 0, acquired |-> 0, released |-> 0, fault |-> "",
          rollbacks |-> 0, commits |-> 0, found |-> -1,
          before |-> [customers |-> {}, addresses |-> {}], log |-> <<>>,
          selected |-> {}, history |-> {}]

\* status 0: no response sent.
NoRes == [status |-> 0, sent |-> 0, message |-> "", data |-> <<>>]

Init ==
  /\ customers = {}
  /\ addresses = {}
  /\ nextCustomerId = 1
  /\ nextAddressId = 1
  /\ pc = [r \in Slots |-> "idle"]
  /\ req = [r \in Slots |-> NoReq]
  /\ tx = [r \in Slots |-> NoTx]
  /\ loc = [r \in Slots |-> NoLoc]
  /\ res = [r \in Slots |-> NoRes]

(***************************************************************************)
(* The store: tables, statements, READ COMMITTED transactions              *)
(***************************************************************************)
CustomerRow(id, b) ==
  [id |-> id, first_name |-> b.first_name, last_name |-> b.last_name,
   phone_number |-> b.phone_number]

AddressRow(id, cid, b) ==
  [id |-> id, customer_id |-> cid, address_details |-> b.address_details,
   city |-> b.city, state |-> b.state, pin_code |-> b.pin_code]

Ids(rows) == {row.id : row \in rows}

\* Rows another open transaction has updated or deleted: a statement that would
\* write one of them waits until that transaction ends.
LockedCustomers(r) == UNION {tx[s].delC \cup Ids(tx[s].updC) : s \in Slots \ {r}}
LockedAddresses(r) == UNION {tx[s].delA : s \in Slots \ {r}}

\* What a statement of slot r's transaction reads: the committed rows, with the
\* transaction's own writes on top.
VisibleCustomers(r) ==
  {c \in customers : c.id \notin tx[r].delC \cup Ids(tx[r].updC)}
    \cup {c \in tx[r].updC \cup tx[r].insC : c.id \notin tx[r].delC}

\* COMMIT: the transaction's writes reach the tables.
CommittedCustomers(t) ==
  {c \in customers : c.id \notin t.delC \cup Ids(t.updC)}
    \cup {c \in t.updC \cup t.insC : c.id \notin t.delC}

CommittedAddresses(t) ==
  {a \in addresses : a.id \notin t.delA} \cup {a \in t.insA : a.id \notin t.delA}

\* The duplicate SELECT with the first two parameters in the wrong order.
DuplicateCustomers_SwappedNames(r, b) ==
  {c \in VisibleCustomers(r) : /\ c.first_name = b.last_name
                               /\ c.last_name = b.first_name
                               /\ c.phone_number = b.phone_number}

\* SELECT id FROM customers WHERE first_name = $1 AND last_name = $2 AND phone_number = $3
DuplicateCustomers(r, b) ==
  {c \in VisibleCustomers(r) : /\ c.first_name = b.first_name
                               /\ c.last_name = b.last_name
                               /\ c.phone_number = b.phone_number}

(***************************************************************************)
(* Validation                                                              *)
(***************************************************************************)
Missing(v) == v = ""

\* POST /api/customers: 0 when the body passes, else the status sent.
CreateCustomerInvalid(b) ==
  \/ Missing(b.first_name) \/ Missing(b.last_name) \/ Missing(b.phone_number)
  \/ Missing(b.address_details) \/ Missing(b.city) \/ Missing(b.state) \/ Missing(b.pin_code)
  \/ ~PhoneOk(b.phone_number)
  \/ ~PinOk(b.pin_code)

\* PUT /api/customers/:id
UpdateCustomerInvalid(b) ==
  \/ Missing(b.first_name) \/ Missing(b.last_name) \/ Missing(b.phone_number)
  \/ ~PhoneOk(b.phone_number)

\* if (address_details && city && state && pin_code)
HasAddressPayload(b) ==
  ~Missing(b.address_details) /\ ~Missing(b.city) /\ ~Missing(b.state) /\ ~Missing(b.pin_code)

\* POST /api/addresses
CreateAddressInvalid(cid, b) == cid = 0 \/ ~HasAddressPayload(b)

\* POST /api/customers/:id/addresses
AddCustomerAddressInvalid(b) == ~HasAddressPayload(b) \/ ~PinOk(b.pin_code)

\* PUT /api/addresses/:id
UpdateAddressInvalid(b) == ~HasAddressPayload(b)

(***************************************************************************)
(* Pieces shared by the handlers                                           *)
(***************************************************************************)
Tables == [customers |-> customers, addresses |-> addresses]

\* Slot r commits the tables t: the locals l, with t recorded for every other
\* request that is between its two queries.
Observed(l, r, t) ==
  [s \in Slots |-> IF s # r /\ pc[s] = "selectAddresses"
                   THEN [l[s] EXCEPT !.history = @ \cup {t}]
                   ELSE l[s]]

Sent(r, status, message, data) ==
  [res EXCEPT ![r] = [status |-> status, sent |-> @.sent + 1,
                      message |-> message, data |-> data]]

\* A handler answers without touching the store.
Reject(r, request, status, message) ==
  /\ pc[r] = "idle"
  /\ req' = [req EXCEPT ![r] = request]
  /\ res' = Sent(r, status, message, <<>>)
  /\ loc' = [loc EXCEPT ![r].before = Tables, ![r].log = @ \o <<"respond">>]
  /\ pc' = [pc EXCEPT ![r] = "done"]
  /\ UNCHANGED <<customers, addresses, nextCustomerId, nextAddressId, tx>>

\* The promise an async handler returned rejected.  What the framework does
\* with it is fixed by the Express release the build installs, which the
\* sources do not pin: release 5 hands the error to the error-handling
\* middleware, app.use((err, req, res, next) => res.status(500)...), release 4
\* ignores the promise and the request stays unanswered.
RejectionOutcomes == BOOLEAN

Rejected(r, forwarded) ==
  IF forwarded THEN Sent(r, 500, "Something went wrong!", <<>>) ELSE res

RejectedLog(forwarded) == IF forwarded THEN <<"respond">> ELSE <<>>

\* const client = await db.getClient(); when it resolves the handler issues BEGIN.
\* When it rejects, the handler's promise rejects outside the try block.
GetClient(r, request, ok) ==
  /\ pc[r] = "idle"
  /\ req' = [req EXCEPT ![r] = request]
  /\ IF ok
     THEN /\ loc' = [loc EXCEPT ![r].before = Tables, ![r].acquired = @ + 1,
                                ![r].log = @ \o <<"getClient">>]
          /\ pc' = [pc EXCEPT ![r] = "begin"]
          /\ res' = res
     ELSE /\ \E forwarded \in RejectionOutcomes :
               /\ res' = Rejected(r, forwarded)
               /\ loc' = [loc EXCEPT ![r].before = Tables, ![r].fault = "getClient",
                                     ![r].log = @ \o <<"getClient">> \o RejectedLog(forwarded)]
          /\ pc' = [pc EXCEPT ![r] = "done"]
  /\ UNCHANGED <<customers, addresses, nextCustomerId, nextAddressId, tx>>

\* A statement inside the try block threw: control goes to the catch block,
\* which issues ROLLBACK.
Throw(r, what) ==
  /\ loc' = [loc EXCEPT ![r].fault = IF @ = "" THEN what ELSE @,
                        ![r].log = @ \o <<what>>]
  /\ pc' = [pc EXCEPT ![r] = "catch"]
  /\ UNCHANGED <<customers, addresses, nextCustomerId, nextAddressId, req, tx, res>>

FirstStatement(kind) ==
  CASE kind = "createCustomer" -> "check"
    [] kind = "updateCustomer" -> "updateCustomer"
    [] kind = "deleteCustomer" -> "deleteAddresses"

\* await client.query('BEGIN')
Begin(r, ok) ==
  /\ pc[r] = "begin"
  /\ IF ok
     THEN /\ tx' = [tx EXCEPT ![r].open = TRUE]
          /\ loc' = [loc EXCEPT ![r].log = @ \o <<"BEGIN">>]
          /\ pc' = [pc EXCEPT ![r] = FirstStatement(req[r].kind)]
          /\ UNCHANGED <<customers, addresses, nextCustomerId, nextAddressId, req, res>>
     ELSE Throw(r, "BEGIN")

RejectStatus(kind) == IF kind = "createCustomer" THEN 409 ELSE 404

RejectMessage(kind) ==
  IF kind = "createCustomer"
  THEN "Customer with this name and phone number already exists."
  ELSE "Customer not found."

\* await client.query('ROLLBACK'); return res.status(404 | 409)...; finally release.
\* The ROLLBACK is inside the try block: when it throws, the catch block runs.
RejectRollback(r, ok) ==
  /\ pc[r] = "rejectRollback"
  /\ IF ok
     THEN /\ tx' = [tx EXCEPT ![r] = NoTx]
          /\ res' = Sent(r, RejectStatus(req[r].kind), RejectMessage(req[r].kind), <<>>)
          /\ loc' = [loc EXCEPT ![r].rollbacks = @ + 1, ![r].released = @ + 1,
                                ![r].log = @ \o <<"ROLLBACK", "respond", "release">>]
          /\ pc' = [pc EXCEPT ![r] = "done"]
     ELSE /\ loc' = [loc EXCEPT ![r].rollbacks = @ + 1,
                                ![r].fault = IF @ = "" THEN "ROLLBACK" ELSE @,
                                ![r].log = @ \o <<"ROLLBACK">>]
          /\ pc' = [pc EXCEPT ![r] = "catch"]
          /\ UNCHANGED <<tx, res>>
  /\ UNCHANGED <<customers, addresses, nextCustomerId, nextAddressId, req>>

\* The catch block answering 500 first and issuing ROLLBACK afterwards.
Catch_RespondsFirst(r, ok) ==
  /\ pc[r] = "catch"
  /\ tx' = [tx EXCEPT ![r] = NoTx]
  /\ res' = Sent(r, 500, "err.message", <<>>)
  /\ loc' = [loc EXCEPT ![r].rollbacks = @ + 1, ![r].released = @ + 1,
                        ![r].fault = IF @ = "" /\ ~ok THEN "ROLLBACK" ELSE @,
                        ![r].log = @ \o <<"respond", "ROLLBACK", "release">>]
  /\ pc' = [pc EXCEPT ![r] = "done"]
  /\ UNCHANGED <<customers, addresses, nextCustomerId, nextAddressId, req>>

\* Catch without the finally block's release when the ROLLBACK throws.
Catch_ReleaseSkippedOnThrow(r, ok) ==
  /\ pc[r] = "catch"
  /\ tx' = [tx EXCEPT ![r] = NoTx]
  /\ IF ok
     THEN /\ res' = Sent(r, 500, "err.message", <<>>)
          /\ loc' = [loc EXCEPT ![r].rollbacks = @ + 1, ![r].released = @ + 1,
                                ![r].log = @ \o <<"ROLLBACK", "respond", "release">>]
     ELSE \E forwarded \in RejectionOutcomes :
            /\ res' = Rejected(r, forwarded)
            /\ loc' = [loc EXCEPT ![r].rollbacks = @ + 1,
                                  ![r].fault = IF @ = "" THEN "ROLLBACK" ELSE @,
                                  ![r].log = @ \o <<"ROLLBACK">> \o RejectedLog(forwarded)]
  /\ pc' = [pc EXCEPT ![r] = "done"]
  /\ UNCHANGED <<customers, addresses, nextCustomerId, nextAddressId, req>>

\* catch (err) { await client.query('ROLLBACK'); res.status(500)... } finally release.
\* A ROLLBACK that fails throws out of the catch block: the finally block still
\* runs, the handler's promise rejects, and the store drops the transaction with
\* the session.
Catch(r, ok) ==
  /\ pc[r] = "catch"
  /\ tx' = [tx EXCEPT ![r] = NoTx]
  /\ IF ok
     THEN /\ res' = Sent(r, 500, "err.message", <<>>)
          /\ loc' = [loc EXCEPT ![r].rollbacks = @ + 1, ![r].released = @ + 1,
                                ![r].log = @ \o <<"ROLLBACK", "respond", "release">>]
     ELSE \E forwarded \in RejectionOutcomes :
            /\ res' = Rejected(r, forwarded)
            /\ loc' = [loc EXCEPT ![r].rollbacks = @ + 1, ![r].released = @ + 1,
                                  ![r].fault = IF @ = "" THEN "ROLLBACK" ELSE @,
                                  ![r].log = @ \o <<"ROLLBACK", "release">>
                                                \o RejectedLog(forwarded)]
  /\ pc' = [pc EXCEPT ![r] = "done"]
  /\ UNCHANGED <<customers, addresses, nextCustomerId, nextAddressId, req>>

CommitStatus(kind) == IF kind = "createCustomer" THEN 201 ELSE 200

CommitMessage(request) ==
  CASE request.kind = "createCustomer" -> "Customer and address created successfully."
    [] request.kind = "updateCustomer" ->
         IF ~Missing(request.body.address_details)
         THEN "Customer and address updated successfully."
         ELSE "Customer updated successfully."
    [] request.kind = "deleteCustomer" ->
         "Customer and all associated addresses deleted successfully."

\* await client.query('COMMIT'); res.json(...); finally release.
Commit(r, ok) ==
  /\ pc[r] = "commit"
  /\ IF ok
     THEN /\ customers' = CommittedCustomers(tx[r])
          /\ addresses' = CommittedAddresses(tx[r])
          /\ tx' = [tx EXCEPT ![r] = NoTx]
          /\ res' = Sent(r, CommitStatus(req[r].kind), CommitMessage(req[r]),
                         <<loc[r].customerId>>)
          /\ loc' = Observed([loc EXCEPT ![r].commits = @ + 1, ![r].released = @ + 1,
                                          ![r].log = @ \o <<"COMMIT", "respond", "release">>],
                             r, [customers |-> CommittedCustomers(tx[r]),
                                 addresses |-> CommittedAddresses(tx[r])])
          /\ pc' = [pc EXCEPT ![r] = "done"]
          /\ UNCHANGED <<nextCustomerId, nextAddressId, req>>
     ELSE /\ loc' = [loc EXCEPT ![r].commits = @ + 1,
                                ![r].fault = IF @ = "" THEN "COMMIT" ELSE @,
                                ![r].log = @ \o <<"COMMIT">>]
          /\ pc' = [pc EXCEPT ![r] = "catch"]
          /\ UNCHANGED <<customers, addresses, nextCustomerId, nextAddressId, req, tx, res>>

\* INSERT INTO addresses (...) inside the slot's transaction.
InsertAddressInTx(r, cid, ok) ==
  /\ nextAddressId <= MaxAddressId
  /\ IF ok
     THEN /\ tx' = [tx EXCEPT ![r].insA = @ \cup {AddressRow(nextAddressId, cid, req[r].body)}]
          /\ nextAddressId' = nextAddressId + 1
          /\ loc' = [loc EXCEPT ![r].log = @ \o <<"insertAddress">>]
          /\ pc' = [pc EXCEPT ![r] = "commit"]
          /\ UNCHANGED <<customers, addresses, nextCustomerId, req, res>>
     ELSE Throw(r, "insertAddress")

\* The request is over; the slot serves the next one.
Finish(r) ==
  /\ pc[r] = "done"
  /\ pc' = [pc EXCEPT ![r] = "idle"]
  /\ req' = [req EXCEPT ![r] = NoReq]
  /\ loc' = [loc EXCEPT ![r] = NoLoc]
  /\ res' = [res EXCEPT ![r] = NoRes]
  /\ UNCHANGED <<customers, addresses, nextCustomerId, nextAddressId, tx>>

(***************************************************************************)
(* POST /api/customers                                                     *)
(***************************************************************************)
CreateRequest(b) == [NoReq EXCEPT !.kind = "createCustomer", !.body = b]

PostCustomers_Start(r, b, ok) ==
  /\ pc[r] = "idle"
  /\ IF CreateCustomerInvalid(b)
     THEN Reject(r, CreateRequest(b), 400, "validation")
     ELSE GetClient(r, CreateRequest(b), ok)

\* The check with the branch taken on rowCount > 1.
PostCustomers_Check_OffByOne(r, ok) ==
  /\ pc[r] = "check"
  /\ req[r].kind = "createCustomer"
  /\ IF ok
     THEN /\ loc' = [loc EXCEPT ![r].found = Cardinality(DuplicateCustomers(r, req[r].body)),
                                ![r].log = @ \o <<"check">>]
          /\ pc' = [pc EXCEPT ![r] = IF loc'[r].found > 1 THEN "rejectRollback"
                                                          ELSE "insertCustomer"]
          /\ UNCHANGED <<customers, addresses, nextCustomerId, nextAddressId, req, tx, res>>
     ELSE Throw(r, "check")

\* The duplicate check, then the branch on checkResult.rowCount.
PostCustomers_Check(r, ok) ==
  /\ pc[r] = "check"
  /\ req[r].kind = "createCustomer"
  /\ IF ok
     THEN /\ loc' = [loc EXCEPT ![r].found = Cardinality(DuplicateCustomers(r, req[r].body)),
                                ![r].log = @ \o <<"check">>]
          /\ pc' = [pc EXCEPT ![r] = IF loc'[r].found > 0 THEN "rejectRollback"
                                                          ELSE "insertCustomer"]
          /\ UNCHANGED <<customers, addresses, nextCustomerId, nextAddressId, req, tx, res>>
     ELSE Throw(r, "check")

\* INSERT INTO customers ... RETURNING id
PostCustomers_InsertCustomer(r, ok) ==
  /\ pc[r] = "insertCustomer"
  /\ nextCustomerId <= MaxCustomerId
  /\ IF ok
     THEN /\ tx' = [tx EXCEPT ![r].insC = @ \cup {CustomerRow(nextCustomerId, req[r].body)}]
          /\ loc' = [loc EXCEPT ![r].customerId = nextCustomerId,
                                ![r].log = @ \o <<"insertCustomer">>]
          /\ nextCustomerId' = nextCustomerId + 1
          /\ pc' = [pc EXCEPT ![r] = "insertAddress"]
          /\ UNCHANGED <<customers, addresses, nextAddressId, req, res>>
     ELSE Throw(r, "insertCustomer")

\* The address INSERT given the previous value of the id sequence instead of
\* customerResult.rows[0].id.
PostCustomers_InsertAddress_StaleId(r, ok) ==
  /\ pc[r] = "insertAddress"
  /\ req[r].kind = "createCustomer"
  /\ InsertAddressInTx(r, loc[r].customerId - 1, ok)

\* INSERT INTO addresses (customer_id, ...) VALUES (customerId, ...)
PostCustomers_InsertAddress(r, ok) ==
  /\ pc[r] = "insertAddress"
  /\ req[r].kind = "createCustomer"
  /\ InsertAddressInTx(r, loc[r].customerId, ok)

(***************************************************************************)
(* POST /api/customers, the callback variant of the server: the duplicate  *)
(* check on the connection, then beginTransaction, the two INSERTs, commit *)
(***************************************************************************)
CallbackCreateRequest(b) == [NoReq EXCEPT !.kind = "createCustomerCallback", !.body = b]

\* The callback answered and released the connection; connection.rollback's
\* callback takes no error argument, so a rollback is followed by the answer
\* whether or not it succeeded.
CallbackEnd(r, status, message, data, what, events) ==
  /\ res' = Sent(r, status, message, data)
  /\ loc' = [loc EXCEPT ![r].fault = IF @ = "" THEN what ELSE @,
                        ![r].released = @ + 1,
                        ![r].rollbacks = @ + Cardinality({i \in 1..Len(events) :
                                                            events[i] = "ROLLBACK"}),
                        ![r].log = @ \o events]
  /\ tx' = [tx EXCEPT ![r] = NoTx]
  /\ pc' = [pc EXCEPT ![r] = "done"]
  /\ UNCHANGED <<customers, addresses, nextCustomerId, nextAddressId, req>>

\* Validation, then db.getConnection((err, connection) => ...)
PostCustomersCallback_Start(r, b, ok) ==
  /\ pc[r] = "idle"
  /\ IF CreateCustomerInvalid(b)
     THEN Reject(r, CallbackCreateRequest(b), 400, "validation")
     ELSE /\ req' = [req EXCEPT ![r] = CallbackCreateRequest(b)]
          /\ IF ok
             THEN /\ loc' = [loc EXCEPT ![r].before = Tables, ![r].acquired = @ + 1,
                                        ![r].log = @ \o <<"getClient">>]
                  /\ pc' = [pc EXCEPT ![r] = "callbackCheck"]
                  /\ res' = res
             ELSE /\ loc' = [loc EXCEPT ![r].before = Tables, ![r].fault = "getClient",
                                        ![r].log = @ \o <<"getClient", "respond">>]
                  /\ pc' = [pc EXCEPT ![r] = "done"]
                  /\ res' = Sent(r, 500, "Database connection failed.", <<>>)
          /\ UNCHANGED <<customers, addresses, nextCustomerId, nextAddressId, tx>>

\* connection.query(checkSql, ...): no transaction is open yet.
PostCustomersCallback_Check(r, ok) ==
  /\ pc[r] = "callbackCheck"
  /\ IF ~ok
     THEN CallbackEnd(r, 500, "Error checking duplicates.", <<>>, "check",
                      <<"check", "release", "respond">>)
     ELSE IF DuplicateCustomers(r, req[r].body) # {}
     THEN CallbackEnd(r, 409, "Customer with this name and phone number already exists.",
                      <<>>, "", <<"check", "release", "respond">>)
     ELSE /\ loc' = [loc EXCEPT ![r].found = 0, ![r].log = @ \o <<"check">>]
          /\ pc' = [pc EXCEPT ![r] = "callbackBegin"]
          /\ UNCHANGED <<customers, addresses, nextCustomerId, nextAddressId, req, tx, res>>

\* connection.beginTransaction((err) => ...)
PostCustomersCallback_Begin(r, ok) ==
  /\ pc[r] = "callbackBegin"
  /\ IF ~ok
     THEN CallbackEnd(r, 500, "Transaction failed.", <<>>, "BEGIN",
                      <<"BEGIN", "release", "respond">>)
     ELSE /\ tx' = [tx EXCEPT ![r].open = TRUE]
          /\ loc' = [loc EXCEPT ![r].log = @ \o <<"BEGIN">>]
          /\ pc' = [pc EXCEPT ![r] = "callbackInsertCustomer"]
          /\ UNCHANGED <<customers, addresses, nextCustomerId, nextAddressId, req, res>>

\* INSERT INTO customers ...; customerId = customerResult.insertId
PostCustomersCallback_InsertCustomer(r, ok) ==
  /\ pc[r] = "callbackInsertCustomer"
  /\ nextCustomerId <= MaxCustomerId
  /\ IF ~ok
     THEN CallbackEnd(r, 500, "err.message", <<>>, "insertCustomer",
                      <<"insertCustomer", "ROLLBACK", "release", "respond">>)
     ELSE /\ tx' = [tx EXCEPT ![r].insC = @ \cup {CustomerRow(nextCustomerId, req[r].body)}]
          /\ loc' = [loc EXCEPT ![r].customerId = nextCustomerId,
                                ![r].log = @ \o <<"insertCustomer">>]
          /\ nextCustomerId' = nextCustomerId + 1
          /\ pc' = [pc EXCEPT ![r] = "callbackInsertAddress"]
          /\ UNCHANGED <<customers, addresses, nextAddressId, req, res>>

\* INSERT INTO addresses (customer_id, ...) VALUES (customerId, ...)
PostCustomersCallback_InsertAddress(r, ok) ==
  /\ pc[r] = "callbackInsertAddress"
  /\ nextAddressId <= MaxAddressId
  /\ IF ~ok
     THEN CallbackEnd(r, 500, "err.message", <<>>, "insertAddress",
                      <<"insertAddress", "ROLLBACK", "release", "respond">>)
     ELSE /\ tx' = [tx EXCEPT ![r].insA =
                        @ \cup {AddressRow(nextAddressId, loc[r].customerId, req[r].body)}]
          /\ loc' = [loc EXCEPT ![r].log = @ \o <<"insertAddress">>]
          /\ nextAddressId' = nextAddressId + 1
          /\ pc' = [pc EXCEPT ![r] = "callbackCommit"]
          /\ UNCHANGED <<customers, addresses, nextCustomerId, req, res>>

\* connection.commit((err) => ...)
PostCustomersCallback_Commit(r, ok) ==
  /\ pc[r] = "callbackCommit"
  /\ IF ~ok
     THEN CallbackEnd(r, 500, "Failed to commit transaction.", <<>>, "COMMIT",
                      <<"COMMIT", "ROLLBACK", "release", "respond">>)
     ELSE /\ customers' = CommittedCustomers(tx[r])
          /\ addresses' = CommittedAddresses(tx[r])
          /\ tx' = [tx EXCEPT ![r] = NoTx]
          /\ res' = Sent(r, 201, "Customer and address created successfully.",
                         <<loc[r].customerId>>)
          /\ loc' = Observed([loc EXCEPT ![r].commits = @ + 1, ![r].released = @ + 1,
                                          ![r].log = @ \o <<"COMMIT", "release", "respond">>],
                             r, [customers |-> CommittedCustomers(tx[r]),
                                 addresses |-> CommittedAddresses(tx[r])])
          /\ pc' = [pc EXCEPT ![r] = "done"]
          /\ UNCHANGED <<nextCustomerId, nextAddressId, req>>

(***************************************************************************)
(* PUT /api/customers/:id                                                  *)
(***************************************************************************)
UpdateRequest(id, b) == [NoReq EXCEPT !.kind = "updateCustomer", !.id = id, !.body = b]

PutCustomer_Start(r, id, b, ok) ==
  /\ pc[r] = "idle"
  /\ IF UpdateCustomerInvalid(b)
     THEN Reject(r, UpdateRequest(id, b), 400, "validation")
     ELSE GetClient(r, UpdateRequest(id, b), ok)

\* The update without the rowCount === 0 branch.
PutCustomer_Update_NoRowCountCheck(r, ok) ==
  /\ pc[r] = "updateCustomer"
  /\ req[r].id \notin LockedCustomers(r)
  /\ IF ok
     THEN LET hit == {c \in VisibleCustomers(r) : c.id = req[r].id} IN
          /\ loc' = [loc EXCEPT ![r].found = Cardinality(hit),
                                ![r].log = @ \o <<"updateCustomer">>]
          /\ tx' = [tx EXCEPT ![r].updC = @ \cup {CustomerRow(c.id, req[r].body) : c \in hit}]
          /\ pc' = [pc EXCEPT ![r] = IF HasAddressPayload(req[r].body)
                                     THEN "insertAddress" ELSE "commit"]
          /\ UNCHANGED <<customers, addresses, nextCustomerId, nextAddressId, req, res>>
     ELSE Throw(r, "updateCustomer")

\* UPDATE customers SET ... WHERE id = $4 RETURNING *, then the branches on
\* customerResult.rowCount and on the address fields.
PutCustomer_Update(r, ok) ==
  /\ pc[r] = "updateCustomer"
  /\ req[r].id \notin LockedCustomers(r)
  /\ IF ok
     THEN LET hit == {c \in VisibleCustomers(r) : c.id = req[r].id} IN
          /\ loc' = [loc EXCEPT ![r].found = Cardinality(hit),
                                ![r].log = @ \o <<"updateCustomer">>]
          /\ IF hit = {}
             THEN /\ pc' = [pc EXCEPT ![r] = "rejectRollback"]
                  /\ tx' = tx
             ELSE /\ tx' = [tx EXCEPT ![r].updC = @ \cup {CustomerRow(req[r].id, req[r].body)}]
                  /\ pc' = [pc EXCEPT ![r] = IF HasAddressPayload(req[r].body)
                                             THEN "insertAddress" ELSE "commit"]
          /\ UNCHANGED <<customers, addresses, nextCustomerId, nextAddressId, req, res>>
     ELSE Throw(r, "updateCustomer")

\* The address payload replacing the customer's existing address rows instead of
\* being added to them.
PutCustomer_InsertAddress_Replace(r, ok) ==
  /\ pc[r] = "insertAddress"
  /\ req[r].kind = "updateCustomer"
  /\ nextAddressId <= MaxAddressId
  /\ IF ok
     THEN /\ tx' = [tx EXCEPT ![r].delA = @ \cup Ids({a \in addresses : a.customer_id = req[r].id}),
                              ![r].insA = @ \cup {AddressRow(nextAddressId, req[r].id, req[r].body)}]
          /\ nextAddressId' = nextAddressId + 1
          /\ loc' = [loc EXCEPT ![r].log = @ \o <<"insertAddress">>]
          /\ pc' = [pc EXCEPT ![r] = "commit"]
          /\ UNCHANGED <<customers, addresses, nextCustomerId, req, res>>
     ELSE Throw(r, "insertAddress")

\* if (address_details && city && state && pin_code) INSERT INTO addresses ...
PutCustomer_InsertAddress(r, ok) ==
  /\ pc[r] = "insertAddress"
  /\ req[r].kind = "updateCustomer"
  /\ InsertAddressInTx(r, req[r].id, ok)

(***************************************************************************)
(* DELETE /api/customers/:id                                               *)
(***************************************************************************)
DeleteRequest(id) == [NoReq EXCEPT !.kind = "deleteCustomer", !.id = id]

DeleteCustomer_Start(r, id, ok) ==
  /\ pc[r] = "idle"
  /\ GetClient(r, DeleteRequest(id), ok)

\* The address DELETE run on the pool (db.query) instead of the transaction's client.
DeleteCustomer_DeleteAddresses_OnPool(r, ok) ==
  /\ pc[r] = "deleteAddresses"
  /\ LET hit == {a.id : a \in {x \in addresses : x.customer_id = req[r].id}} IN
     /\ hit \cap LockedAddresses(r) = {}
     /\ IF ok
        THEN /\ addresses' = {a \in addresses : a.id \notin hit}
             /\ loc' = [loc EXCEPT ![r].log = @ \o <<"deleteAddresses">>]
             /\ pc' = [pc EXCEPT ![r] = "deleteCustomer"]
             /\ UNCHANGED <<customers, nextCustomerId, nextAddressId, req, tx, res>>
        ELSE Throw(r, "deleteAddresses")

\* DELETE FROM addresses WHERE customer_id = $1
DeleteCustomer_DeleteAddresses(r, ok) ==
  /\ pc[r] = "deleteAddresses"
  /\ LET hit == {a.id : a \in {x \in addresses : x.customer_id = req[r].id}} IN
     /\ hit \cap LockedAddresses(r) = {}
     /\ IF ok
        THEN /\ tx' = [tx EXCEPT ![r].delA = @ \cup hit]
             /\ loc' = [loc EXCEPT ![r].log = @ \o <<"deleteAddresses">>]
             /\ pc' = [pc EXCEPT ![r] = "deleteCustomer"]
             /\ UNCHANGED <<customers, addresses, nextCustomerId, nextAddressId, req, res>>
        ELSE Throw(r, "deleteAddresses")

\* DELETE FROM customers WHERE id = $1 RETURNING *, then the branch on result.rowCount.
DeleteCustomer_DeleteCustomer(r, ok) ==
  /\ pc[r] = "deleteCustomer"
  /\ req[r].id \notin LockedCustomers(r)
  /\ IF ok
     THEN LET hit == {c \in VisibleCustomers(r) : c.id = req[r].id} IN
          /\ loc' = [loc EXCEPT ![r].found = Cardinality(hit),
                                ![r].log = @ \o <<"deleteCustomer">>]
          /\ IF hit = {}
             THEN /\ pc' = [pc EXCEPT ![r] = "rejectRollback"]
                  /\ tx' = tx
             ELSE /\ tx' = [tx EXCEPT ![r].delC = @ \cup {req[r].id}]
                  /\ pc' = [pc EXCEPT ![r] = "commit"]
          /\ UNCHANGED <<customers, addresses, nextCustomerId, nextAddressId, req, res>>
     ELSE Throw(r, "deleteCustomer")

(***************************************************************************)
(* Single-statement handlers: db.query on a pooled connection, autocommit  *)
(***************************************************************************)
\* The handler ran its one statement and answered.
Answer(r, request, status, message, data, newAddresses) ==
  /\ pc[r] = "idle"
  /\ req' = [req EXCEPT ![r] = request]
  /\ addresses' = newAddresses
  /\ res' = Sent(r, status, message, data)
  /\ loc' = Observed([loc EXCEPT ![r].before = Tables,
                                 ![r].log = @ \o <<"query", "respond">>],
                     r, [customers |-> customers, addresses |-> newAddresses])
  /\ pc' = [pc EXCEPT ![r] = "done"]
  /\ UNCHANGED <<customers, nextCustomerId, tx>>

\* catch (err) { res.status(500).json({ error: err.message }) }
AnswerError(r, request, what) ==
  /\ pc[r] = "idle"
  /\ req' = [req EXCEPT ![r] = request]
  /\ res' = Sent(r, 500, "err.message", <<>>)
  /\ loc' = [loc EXCEPT ![r].before = Tables, ![r].fault = what,
                        ![r].log = @ \o <<"query", "respond">>]
  /\ pc' = [pc EXCEPT ![r] = "done"]
  /\ UNCHANGED <<customers, addresses, nextCustomerId, nextAddressId, tx>>

\* The addresses table declares no reference to customers that the store checks:
\* an INSERT with a customer_id that matches no customer row is accepted.
StoreChecksCustomerReference == FALSE

ReferenceViolation(cid) ==
  StoreChecksCustomerReference /\ \A c \in customers : c.id # cid

\* POST /api/addresses
PostAddresses(r, cid, b, ok) ==
  LET request == [NoReq EXCEPT !.kind = "createAddress", !.id = cid, !.body = b]
      row == AddressRow(nextAddressId, cid, b)
  IN /\ pc[r] = "idle"
     /\ IF CreateAddressInvalid(cid, b)
        THEN Reject(r, request, 400, "All fields required.")
        ELSE /\ nextAddressId <= MaxAddressId
             /\ IF ok /\ ~ReferenceViolation(cid)
                THEN /\ Answer(r, request, 201, "", <<row>>, addresses \cup {row})
                     /\ nextAddressId' = nextAddressId + 1
                ELSE AnswerError(r, request, "insertAddress")

\* POST /api/customers/:id/addresses
PostCustomerAddresses(r, id, b, ok) ==
  LET request == [NoReq EXCEPT !.kind = "addCustomerAddress", !.id = id, !.body = b]
      row == AddressRow(nextAddressId, id, b)
  IN /\ pc[r] = "idle"
     /\ IF AddCustomerAddressInvalid(b)
        THEN Reject(r, request, 400, "validation")
        ELSE /\ nextAddressId <= MaxAddressId
             /\ IF ok /\ ~ReferenceViolation(id)
                THEN /\ Answer(r, request, 201, "Address added", <<row.id>>,
                               addresses \cup {row})
                     /\ nextAddressId' = nextAddressId + 1
                ELSE AnswerError(r, request, "insertAddress")

\* The UPDATE keyed on customer_id instead of id.
PutAddress_ByCustomerId(r, id, b, ok) ==
  LET request == [NoReq EXCEPT !.kind = "updateAddress", !.id = id, !.body = b]
      hit == {a \in addresses : a.customer_id = id}
      new == {AddressRow(a.id, a.customer_id, b) : a \in hit}
  IN /\ pc[r] = "idle"
     /\ IF UpdateAddressInvalid(b)
        THEN Reject(r, request, 400, "All fields required.")
        ELSE /\ IF ok
                THEN /\ IF hit = {}
                        THEN Answer(r, request, 404, "Address not found.", <<>>, addresses)
                        ELSE Answer(r, request, 200, "", <<CHOOSE a \in new : TRUE>>,
                                    (addresses \ hit) \cup new)
                     /\ UNCHANGED nextAddressId
                ELSE AnswerError(r, request, "updateAddress")

\* PUT /api/addresses/:id
PutAddress(r, id, b, ok) ==
  LET request == [NoReq EXCEPT !.kind = "updateAddress", !.id = id, !.body = b]
      hit == {a \in addresses : a.id = id}
      new == {AddressRow(a.id, a.customer_id, b) : a \in hit}
  IN /\ pc[r] = "idle"
     /\ IF UpdateAddressInvalid(b)
        THEN Reject(r, request, 400, "All fields required.")
        ELSE /\ id \notin LockedAddresses(r)
             /\ IF ok
                THEN /\ IF hit = {}
                        THEN Answer(r, request, 404, "Address not found.", <<>>, addresses)
                        ELSE Answer(r, request, 200, "", <<CHOOSE a \in new : TRUE>>,
                                    (addresses \ hit) \cup new)
                     /\ UNCHANGED nextAddressId
                ELSE AnswerError(r, request, "updateAddress")

\* DELETE /api/addresses/:id
DeleteAddress(r, id, ok) ==
  LET request == [NoReq EXCEPT !.kind = "deleteAddress", !.id = id]
      hit == {a \in addresses : a.id = id}
  IN /\ pc[r] = "idle"
     /\ id \notin LockedAddresses(r)
     /\ IF ok
        THEN /\ IF hit = {}
                THEN Answer(r, request, 404, "Address not found.", <<>>, addresses)
                ELSE Answer(r, request, 200, "Address deleted successfully.", <<>>,
                            addresses \ hit)
             /\ UNCHANGED nextAddressId
        ELSE AnswerError(r, request, "deleteAddress")

(***************************************************************************)
(* DELETE /api/addresses/:id with an existence pre-check (the callback      *)
(* variant of the server): SELECT, then DELETE; each statement autocommits *)
(***************************************************************************)
\* db.query("SELECT * FROM addresses WHERE id = ?"), then the branch on
\* results.length.
DeleteAddressPreCheck_Select(r, id, ok) ==
  LET request == [NoReq EXCEPT !.kind = "deleteAddressPreCheck", !.id = id]
      hit == {a \in addresses : a.id = id}
  IN /\ pc[r] = "idle"
     /\ IF ok
        THEN IF hit = {}
             THEN Answer(r, request, 404, "Address not found.", <<>>, addresses)
             ELSE /\ req' = [req EXCEPT ![r] = request]
                  /\ loc' = [loc EXCEPT ![r].before = Tables,
                                        ![r].found = Cardinality(hit),
                                        ![r].log = @ \o <<"query">>]
                  /\ pc' = [pc EXCEPT ![r] = "deleteAddress"]
                  /\ UNCHANGED <<customers, addresses, nextCustomerId, tx, res>>
        ELSE AnswerError(r, request, "select")
     /\ UNCHANGED nextAddressId

\* db.query("DELETE FROM addresses WHERE id = ?"); the callback answers
\* "Address deleted successfully." without reading result.affectedRows.
DeleteAddressPreCheck_Delete(r, ok) ==
  /\ pc[r] = "deleteAddress"
  /\ req[r].id \notin LockedAddresses(r)
  /\ addresses' = IF ok THEN {a \in addresses : a.id # req[r].id} ELSE addresses
  /\ res' = IF ok
            THEN Sent(r, 200, "Address deleted successfully.", <<>>)
            ELSE Sent(r, 500, "Failed to delete address.", <<>>)
  /\ loc' = Observed([loc EXCEPT ![r].fault = IF ok THEN @ ELSE "deleteAddress",
                                 ![r].log = @ \o <<"query", "respond">>],
                     r, [customers |-> customers,
                         addresses |-> IF ok THEN {a \in addresses : a.id # req[r].id}
                                       ELSE addresses])
  /\ pc' = [pc EXCEPT ![r] = "done"]
  /\ UNCHANGED <<customers, nextCustomerId, nextAddressId, req, tx>>

(***************************************************************************)
(* GET /api/customers                                                      *)
(***************************************************************************)
\* The joined row of a customer without addresses carries NULL address columns.
NullAddress ==
  [id |-> 0, customer_id |-> 0, address_details |-> "", city |-> "", state |-> "",
   pin_code |-> ""]

\* FROM customers c LEFT JOIN addresses a ON c.id = a.customer_id
LeftJoin ==
  {p \in customers \X addresses : p[1].id = p[2].customer_id}
    \cup {<<c, NullAddress>> :
            c \in {x \in customers : \A a \in addresses : a.customer_id # x.id}}

\* (c.first_name ILIKE $1 OR ... OR a.pin_code ILIKE $1)
MatchesTerm(c, a, term) ==
  \/ ILike(c.first_name, term) \/ ILike(c.last_name, term) \/ ILike(c.phone_number, term)
  \/ /\ a.id # 0
     /\ \/ ILike(a.address_details, term) \/ ILike(a.city, term)
        \/ ILike(a.state, term) \/ ILike(a.pin_code, term)

\* if (searchTerm && searchTerm.trim()) { ... WHERE ... }
WhereRows(q) ==
  IF q # "" /\ Trim(q) # ""
  THEN {p \in LeftJoin : MatchesTerm(p[1], p[2], Trim(q))}
  ELSE LeftJoin

\* COUNT(a.id) of the group of customer c
GroupCount(rows, c) == Cardinality({p \in rows : p[1] = c /\ p[2].id # 0})

\* HAVING COUNT(a.id) = 1 | HAVING COUNT(a.id) > 1 | nothing
Having(addressCount, n) ==
  CASE addressCount = "single" -> n = 1
    [] addressCount = "multiple" -> n > 1
    [] OTHER -> TRUE

DecimalDigits == "0123456789"

\* COUNT arrives as a decimal string (bigint); the model's counts are below 10.
CountText(n) == CharAt(DecimalDigits, n + 1)

\* parseInt(row.address_count) || 0
ParseCount(s) ==
  IF \E n \in 0..9 : CharAt(DecimalDigits, n + 1) = s
  THEN CHOOSE n \in 0..9 : CharAt(DecimalDigits, n + 1) = s
  ELSE 0

\* ORDER BY c.id DESC
RECURSIVE OrderByIdDesc(_)
OrderByIdDesc(rows) ==
  IF rows = {} THEN <<>>
  ELSE LET top == CHOOSE x \in rows : \A y \in rows : y.id <= x.id
       IN <<top>> \o OrderByIdDesc(rows \ {top})

\* The query without GROUP BY c.id: one row per joined row.
ListCustomers_Ungrouped(q, addressCount) ==
  OrderByIdDesc(
    {[id |-> p[1].id, first_name |-> p[1].first_name, last_name |-> p[1].last_name,
      phone_number |-> p[1].phone_number,
      address_count |-> IF p[2].id # 0 THEN 1 ELSE 0,
      addresses |-> IF p[2].id # 0 THEN {p[2]} ELSE {}] : p \in WhereRows(q)})

\* The rows of the query and the map over them. The nested addresses are a set:
\* json_agg has no ORDER BY.
ListCustomers(q, addressCount) ==
  LET rows == WhereRows(q)
      groups == {p[1] : p \in rows}
      kept == {c \in groups : Having(addressCount, GroupCount(rows, c))}
  IN OrderByIdDesc(
       {[id |-> c.id, first_name |-> c.first_name, last_name |-> c.last_name,
         phone_number |-> c.phone_number,
         address_count |-> ParseCount(CountText(GroupCount(rows, c))),
         addresses |-> {p[2] : p \in {x \in rows : x[1] = c /\ x[2].id # 0}}] : c \in kept})

GetCustomers(r, q, addressCount, ok) ==
  LET request == [NoReq EXCEPT !.kind = "listCustomers", !.q = q,
                               !.addressCount = addressCount]
  IN /\ pc[r] = "idle"
     /\ IF ok
        THEN Answer(r, request, 200, "", ListCustomers(q, addressCount), addresses)
        ELSE AnswerError(r, request, "select")
     /\ UNCHANGED nextAddressId

(***************************************************************************)
(* GET /api/customers/search                                               *)
(***************************************************************************)
\* if (!searchTerm.trim()) every customer; else term = `%${searchTerm}%` and
\* SELECT DISTINCT c.*, (SELECT json_agg(...) WHERE a.customer_id = c.id) of the
\* joined rows that match. addresses: row.addresses || [].
SearchCustomers(q) ==
  LET found == IF Trim(q) = "" THEN customers
               ELSE {p[1] : p \in {x \in LeftJoin : MatchesTerm(x[1], x[2], q)}}
  IN OrderByIdDesc(
       {[id |-> c.id, first_name |-> c.first_name, last_name |-> c.last_name,
         phone_number |-> c.phone_number,
         addresses |-> {a \in addresses : a.customer_id = c.id}] : c \in found})

GetCustomersSearch(r, q, ok) ==
  LET request == [NoReq EXCEPT !.kind = "searchCustomers", !.q = q]
  IN /\ pc[r] = "idle"
     /\ IF ok
        THEN Answer(r, request, 200, "", SearchCustomers(q), addresses)
        ELSE AnswerError(r, request, "select")
     /\ UNCHANGED nextAddressId

(***************************************************************************)
(* GET /api/customers/count                                                *)
(***************************************************************************)
\* SELECT COUNT(*) FROM (SELECT c.id FROM customers c LEFT JOIN addresses a ...)
\* 'single' and 'multiple' append "a.id IS NOT NULL GROUP BY c.id HAVING ..." to
\* the conditions; GROUP BY c.id is appended otherwise only if (!addressCount),
\* so any other value leaves the inner query ungrouped: one row per joined row.
CountCustomers(q, addressCount) ==
  LET rows == WhereRows(q)
      notNull == {p \in rows : p[2].id # 0}
  IN CASE addressCount \in {"single", "multiple"} ->
            Cardinality({c \in {p[1] : p \in notNull} :
                           Having(addressCount, GroupCount(notNull, c))})
       [] addressCount = "" -> Cardinality({p[1] : p \in rows})
       [] OTHER -> Cardinality(rows)

\* res.json({ count: result.rows[0]?.total || 0 }): total is the decimal string
\* of the bigint COUNT(*).
GetCustomersCount(r, q, addressCount, ok) ==
  LET request == [NoReq EXCEPT !.kind = "countCustomers", !.q = q,
                               !.addressCount = addressCount]
  IN /\ pc[r] = "idle"
     /\ IF ok
        THEN Answer(r, request, 200, "", <<CountText(CountCustomers(q, addressCount))>>,
                    addresses)
        ELSE AnswerError(r, request, "select")
     /\ UNCHANGED nextAddressId

(***************************************************************************)
(* GET /api/customers/:id                                                  *)
(***************************************************************************)
\* SELECT * FROM customers WHERE id = $1, then the branch on rowCount.
GetCustomer_SelectCustomer(r, id, ok) ==
  LET request == [NoReq EXCEPT !.kind = "getCustomer", !.id = id]
      hit == {c \in customers : c.id = id}
  IN /\ pc[r] = "idle"
     /\ IF ok
        THEN IF hit = {}
             THEN Answer(r, request, 404, "Customer not found", <<>>, addresses)
             ELSE /\ req' = [req EXCEPT ![r] = request]
                  /\ loc' = [loc EXCEPT ![r].before = Tables, ![r].selected = hit,
                                        ![r].history = {Tables},
                                        ![r].found = Cardinality(hit),
                                        ![r].log = @ \o <<"query">>]
                  /\ pc' = [pc EXCEPT ![r] = "selectAddresses"]
                  /\ UNCHANGED <<customers, addresses, nextCustomerId, tx, res>>
        ELSE AnswerError(r, request, "select")
     /\ UNCHANGED nextAddressId

\* The address query keyed on the address id instead of customer_id.
GetCustomer_SelectAddresses_ByAddressId(r, ok) ==
  /\ pc[r] = "selectAddresses"
  /\ res' = IF ok
            THEN Sent(r, 200, "",
                      <<[customer |-> CHOOSE c \in loc[r].selected : TRUE,
                         addresses |-> {a \in addresses : a.id = req[r].id}]>>)
            ELSE Sent(r, 500, "err.message", <<>>)
  /\ loc' = [loc EXCEPT ![r].fault = IF ok THEN @ ELSE "select",
                        ![r].log = @ \o <<"query", "respond">>]
  /\ pc' = [pc EXCEPT ![r] = "done"]
  /\ UNCHANGED <<customers, addresses, nextCustomerId, nextAddressId, req, tx>>

\* SELECT * FROM addresses WHERE customer_id = $1, then
\* res.json({ data: { ...customerResult.rows[0], addresses: addressResult.rows } })
GetCustomer_SelectAddresses(r, ok) ==
  /\ pc[r] = "selectAddresses"
  /\ res' = IF ok
            THEN Sent(r, 200, "",
                      <<[customer |-> CHOOSE c \in loc[r].selected : TRUE,
                         addresses |-> {a \in addresses : a.customer_id = req[r].id}]>>)
            ELSE Sent(r, 500, "err.message", <<>>)
  /\ loc' = [loc EXCEPT ![r].fault = IF ok THEN @ ELSE "select",
                        ![r].log = @ \o <<"query", "respond">>]
  /\ pc' = [pc EXCEPT ![r] = "done"]
  /\ UNCHANGED <<customers, addresses, nextCustomerId, nextAddressId, req, tx>>

(***************************************************************************)
(* Specifications                                                          *)
(***************************************************************************)
\* Every handler, any request, store calls that may fail: slots `slots`,
\* statement outcomes `outcomes`.
Step(slots, outcomes, creates, updates, addrs, terms) ==
  \E r \in slots, ok \in outcomes :
    \/ \E b \in creates : PostCustomers_Start(r, b, ok)
    \/ PostCustomers_Check(r, ok)
    \/ PostCustomers_InsertCustomer(r, ok)
    \/ PostCustomers_InsertAddress(r, ok)
    \/ \E id \in CustomerIds, b \in updates : PutCustomer_Start(r, id, b, ok)
    \/ PutCustomer_Update(r, ok)
    \/ PutCustomer_InsertAddress(r, ok)
    \/ \E id \in CustomerIds : DeleteCustomer_Start(r, id, ok)
    \/ DeleteCustomer_DeleteAddresses(r, ok)
    \/ DeleteCustomer_DeleteCustomer(r, ok)
    \/ Begin(r, ok)
    \/ RejectRollback(r, ok)
    \/ Catch(r, ok)
    \/ Commit(r, ok)
    \/ \E cid \in CustomerIds, b \in addrs : PostAddresses(r, cid, b, ok)
    \/ \E id \in CustomerIds, b \in addrs : PostCustomerAddresses(r, id, b, ok)
    \/ \E id \in AddressIds, b \in addrs : PutAddress(r, id, b, ok)
    \/ \E id \in AddressIds : DeleteAddress(r, id, ok)
    \/ \E q \in terms, n \in AddressCounts : GetCustomers(r, q, n, ok)
    \/ \E q \in terms, n \in AddressCounts : GetCustomersCount(r, q, n, ok)
    \/ \E id \in CustomerIds : GetCustomer_SelectCustomer(r, id, ok)
    \/ GetCustomer_SelectAddresses(r, ok)
    \/ Finish(r)

\* Every handler and every input, one request at a time, any store call failing.
Next == Step({1}, BOOLEAN, CreateBodies, UpdateBodies, AddressBodies, SearchTerms)

Spec == Init /\ [][Next]_vars

\* The transactional handlers (create, update, delete customer) with the address
\* create and delete that give a customer any number of addresses: one request
\* at a time, any store call failing. The address rows differ in id and
\* customer_id; their pin codes are well-formed.
TxUpdateBodies == {b \in UpdateBodies : Missing(b.pin_code) \/ PinOk(b.pin_code)}
TxAddressBodies == {Body("", "", "", "12 Elm", "Pune", "MH", "411001")}

NextTx ==
  \E r \in {1}, ok \in BOOLEAN :
    \/ \E b \in CreateBodies : PostCustomers_Start(r, b, ok)
    \/ PostCustomers_Check(r, ok)
    \/ PostCustomers_InsertCustomer(r, ok)
    \/ PostCustomers_InsertAddress(r, ok)
    \/ \E id \in CustomerIds, b \in TxUpdateBodies : PutCustomer_Start(r, id, b, ok)
    \/ PutCustomer_Update(r, ok)
    \/ PutCustomer_InsertAddress(r, ok)
    \/ \E id \in CustomerIds : DeleteCustomer_Start(r, id, ok)
    \/ DeleteCustomer_DeleteAddresses(r, ok)
    \/ DeleteCustomer_DeleteCustomer(r, ok)
    \/ Begin(r, ok)
    \/ RejectRollback(r, ok)
    \/ Catch(r, ok)
    \/ Commit(r, ok)
    \/ \E cid \in CustomerIds, b \in TxAddressBodies : PostAddresses(r, cid, b, ok)
    \/ \E id \in AddressIds : DeleteAddress(r, id, ok)
    \/ Finish(r)

SpecTx == Init /\ [][NextTx]_vars

\* Requests of the interleaved specification: valid bodies only.
ConcCreateBodies == {Body("Ann", "Lee", "9876543210", "12 Elm", "Pune", "MH", "411001")}
ConcUpdateBodies == {Body("Bob", "Lee", "9876543210", "9 Oak", "Agra", "UP", "282001")}
ConcAddressBodies == {Body("", "", "", "12 Elm", "Pune", "MH", "411001")}

\* Two requests in flight, their store statements interleaved in every order;
\* no store call fails.
NextConc ==
  \E r \in Slots :
    \/ \E b \in ConcCreateBodies : PostCustomers_Start(r, b, TRUE)
    \/ PostCustomers_Check(r, TRUE)
    \/ PostCustomers_InsertCustomer(r, TRUE)
    \/ PostCustomers_InsertAddress(r, TRUE)
    \/ \E id \in CustomerIds, b \in ConcUpdateBodies : PutCustomer_Start(r, id, b, TRUE)
    \/ PutCustomer_Update(r, TRUE)
    \/ PutCustomer_InsertAddress(r, TRUE)
    \/ \E id \in CustomerIds : DeleteCustomer_Start(r, id, TRUE)
    \/ DeleteCustomer_DeleteAddresses(r, TRUE)
    \/ DeleteCustomer_DeleteCustomer(r, TRUE)
    \/ Begin(r, TRUE)
    \/ RejectRollback(r, TRUE)
    \/ Commit(r, TRUE)
    \/ \E cid \in CustomerIds, b \in ConcAddressBodies : PostAddresses(r, cid, b, TRUE)
    \/ \E id \in AddressIds : DeleteAddress(r, id, TRUE)
    \/ Finish(r)

SpecConc == Init /\ [][NextConc]_vars

\* The read handlers over every store the writes below build: customers with
\* zero, one or several addresses in different cities. One request at a time;
\* the writes succeed, a read may fail.
ReadCreateBodies == {b \in CreateBodies : ~CreateCustomerInvalid(b)}
ReadAddressBodies == {b \in AddressBodies : ~CreateAddressInvalid(1, b) /\ PinOk(b.pin_code)}

NextRead ==
  \E r \in {1} :
    \/ \E b \in ReadCreateBodies : PostCustomers_Start(r, b, TRUE)
    \/ Begin(r, TRUE)
    \/ PostCustomers_Check(r, TRUE)
    \/ PostCustomers_InsertCustomer(r, TRUE)
    \/ PostCustomers_InsertAddress(r, TRUE)
    \/ RejectRollback(r, TRUE)
    \/ Commit(r, TRUE)
    \/ \E cid \in CustomerIds, b \in ReadAddressBodies : PostAddresses(r, cid, b, TRUE)
    \/ \E id \in AddressIds : DeleteAddress(r, id, TRUE)
    \/ \E q \in SearchTerms, n \in AddressCounts, ok \in BOOLEAN : GetCustomers(r, q, n, ok)
    \/ \E id \in CustomerIds, ok \in BOOLEAN : GetCustomer_SelectCustomer(r, id, ok)
    \/ \E ok \in BOOLEAN : GetCustomer_SelectAddresses(r, ok)
    \/ Finish(r)

SpecRead == Init /\ [][NextRead]_vars

\* The address handlers over the stores that creates build: one request at a
\* time; the creates succeed, an address update or delete may fail.
NextAddr ==
  \E r \in {1} :
    \/ \E b \in ReadCreateBodies : PostCustomers_Start(r, b, TRUE)
    \/ Begin(r, TRUE)
    \/ PostCustomers_Check(r, TRUE)
    \/ PostCustomers_InsertCustomer(r, TRUE)
    \/ PostCustomers_InsertAddress(r, TRUE)
    \/ RejectRollback(r, TRUE)
    \/ Commit(r, TRUE)
    \/ \E cid \in CustomerIds, b \in ReadAddressBodies : PostAddresses(r, cid, b, TRUE)
    \/ \E id \in AddressIds, b \in AddressBodies, ok \in BOOLEAN : PutAddress(r, id, b, ok)
    \/ \E id \in AddressIds, ok \in BOOLEAN : DeleteAddress(r, id, ok)
    \/ Finish(r)

SpecAddr == Init /\ [][NextAddr]_vars

\* Address deletes of both variants, two requests in flight, their store
\* statements interleaved in every order; a statement of the pre-check variant
\* may fail.
NextDel ==
  \E r \in Slots :
    \/ \E b \in ConcCreateBodies : PostCustomers_Start(r, b, TRUE)
    \/ Begin(r, TRUE)
    \/ PostCustomers_Check(r, TRUE)
    \/ PostCustomers_InsertCustomer(r, TRUE)
    \/ PostCustomers_InsertAddress(r, TRUE)
    \/ RejectRollback(r, TRUE)
    \/ Commit(r, TRUE)
    \/ \E id \in AddressIds : DeleteAddress(r, id, TRUE)
    \/ \E id \in AddressIds, ok \in BOOLEAN : DeleteAddressPreCheck_Select(r, id, ok)
    \/ \E ok \in BOOLEAN : DeleteAddressPreCheck_Delete(r, ok)
    \/ Finish(r)

SpecDel == Init /\ [][NextDel]_vars

\* POST /api/customers of both variants of the server, every body, one request
\* at a time, any store call failing.
NextCreate ==
  \E r \in {1}, ok \in BOOLEAN :
    \/ \E b \in CreateBodies : PostCustomers_Start(r, b, ok)
    \/ Begin(r, ok)
    \/ PostCustomers_Check(r, ok)
    \/ PostCustomers_InsertCustomer(r, ok)
    \/ PostCustomers_InsertAddress(r, ok)
    \/ RejectRollback(r, ok)
    \/ Catch(r, ok)
    \/ Commit(r, ok)
    \/ \E b \in CreateBodies : PostCustomersCallback_Start(r, b, ok)
    \/ PostCustomersCallback_Check(r, ok)
    \/ PostCustomersCallback_Begin(r, ok)
    \/ PostCustomersCallback_InsertCustomer(r, ok)
    \/ PostCustomersCallback_InsertAddress(r, ok)
    \/ PostCustomersCallback_Commit(r, ok)
    \/ Finish(r)

SpecCreate == Init /\ [][NextCreate]_vars

\* GET /api/customers/:id next to the writes that change a customer and its
\* addresses: two requests in flight, their store statements interleaved in
\* every order; no store call fails.
NextGet ==
  \E r \in Slots :
    \/ \E b \in ConcCreateBodies : PostCustomers_Start(r, b, TRUE)
    \/ Begin(r, TRUE)
    \/ PostCustomers_Check(r, TRUE)
    \/ PostCustomers_InsertCustomer(r, TRUE)
    \/ PostCustomers_InsertAddress(r, TRUE)
    \/ RejectRollback(r, TRUE)
    \/ Commit(r, TRUE)
    \/ \E id \in CustomerIds : DeleteCustomer_Start(r, id, TRUE)
    \/ DeleteCustomer_DeleteAddresses(r, TRUE)
    \/ DeleteCustomer_DeleteCustomer(r, TRUE)
    \/ \E cid \in CustomerIds, b \in ConcAddressBodies : PostAddresses(r, cid, b, TRUE)
    \/ \E id \in AddressIds : DeleteAddress(r, id, TRUE)
    \/ \E id \in CustomerIds : GetCustomer_SelectCustomer(r, id, TRUE)
    \/ GetCustomer_SelectAddresses(r, TRUE)
    \/ Finish(r)

SpecGet == Init /\ [][NextGet]_vars

\* The two searching reads, GET /api/customers/search and GET /api/customers,
\* over the stores that creates and address writes build, with padded and
\* blank terms. One request at a time; the writes succeed, a read may fail.
NextSearch ==
  \E r \in {1} :
    \/ \E b \in ReadCreateBodies : PostCustomers_Start(r, b, TRUE)
    \/ Begin(r, TRUE)
    \/ PostCustomers_Check(r, TRUE)
    \/ PostCustomers_InsertCustomer(r, TRUE)
    \/ PostCustomers_InsertAddress(r, TRUE)
    \/ RejectRollback(r, TRUE)
    \/ Commit(r, TRUE)
    \/ \E cid \in CustomerIds, b \in ReadAddressBodies : PostAddresses(r, cid, b, TRUE)
    \/ \E id \in AddressIds : DeleteAddress(r, id, TRUE)
    \/ \E q \in PaddedTerms, ok \in BOOLEAN : GetCustomers(r, q, "", ok)
    \/ \E q \in PaddedTerms, ok \in BOOLEAN : GetCustomersSearch(r, q, ok)
    \/ Finish(r)

SpecSearch == Init /\ [][NextSearch]_vars

(***************************************************************************)
(* Properties                                                              *)
(***************************************************************************)
Done(r) == pc[r] = "done"

Transactional(r) == req[r].kind \in {"createCustomer", "updateCustomer", "deleteCustomer"}

\* The committed tables are what they were when slot r's request arrived.
StoreUnchanged(r) ==
  customers = loc[r].before.customers /\ addresses = loc[r].before.addresses

SameTriple(c, b) ==
  /\ c.first_name = b.first_name
  /\ c.last_name = b.last_name
  /\ c.phone_number = b.phone_number

\* C1: in create, update and delete customer the connection acquired from the
\* pool is released exactly once by the time the request is over, on every exit
\* path (commit, 404 / 409 after rollback, a store error at any statement, a
\* failing BEGIN, COMMIT or ROLLBACK), and never before the handler is through
\* with it.
C1_ConnectionReleasedExactlyOnce ==
  \A r \in Slots :
    /\ loc[r].acquired \in {0, 1}
    /\ Done(r) => loc[r].released = loc[r].acquired
    /\ ~Done(r) => loc[r].released = 0
    /\ (Transactional(r) /\ pc[r] # "done") => loc[r].acquired = 1

\* A create that met a duplicate, whose ROLLBACK failed, whose second ROLLBACK
\* (in the catch block) failed too, and that released its connection once.
C1_Witness ==
  \E r \in Slots :
    /\ Done(r) /\ req[r].kind = "createCustomer"
    /\ loc[r].found > 0 /\ loc[r].rollbacks = 2 /\ res[r].sent = 0
    /\ loc[r].acquired = 1 /\ loc[r].released = 1

\* C2: DELETE /api/customers/:id is atomic. After a success response the
\* customer row and all N of its address rows are gone and nothing else changed;
\* when the customer DELETE fails after the address DELETE ran, the committed
\* tables still hold the customer row and all N address rows.
C2_DeleteCustomerAtomic ==
  \A r \in Slots :
    (Done(r) /\ req[r].kind = "deleteCustomer") =>
      /\ res[r].status = 200 =>
           /\ customers = {c \in loc[r].before.customers : c.id # req[r].id}
           /\ addresses = {a \in loc[r].before.addresses : a.customer_id # req[r].id}
           /\ \E c \in loc[r].before.customers : c.id = req[r].id
      /\ loc[r].fault = "deleteCustomer" => StoreUnchanged(r)

\* A customer with two addresses whose delete failed at the customer DELETE,
\* after the address DELETE had run, and was answered 500.
C2_Witness ==
  \E r \in Slots :
    /\ Done(r) /\ req[r].kind = "deleteCustomer"
    /\ Cardinality({a \in loc[r].before.addresses : a.customer_id = req[r].id}) = 2
    /\ \E c \in loc[r].before.customers : c.id = req[r].id
    /\ loc[r].fault = "deleteCustomer" /\ res[r].status = 500

\* C3: POST /api/customers with a valid body whose (first_name, last_name,
\* phone_number) equals that of an existing customer row leaves both tables as
\* they were, and answers 409 (500 or nothing only when a store call failed).
C3_DuplicateCreateRejected ==
  \A r \in Slots :
    ( /\ Done(r) /\ req[r].kind = "createCustomer"
      /\ ~CreateCustomerInvalid(req[r].body)
      /\ \E c \in loc[r].before.customers : SameTriple(c, req[r].body) ) =>
      /\ StoreUnchanged(r)
      /\ loc[r].fault = "" => res[r].status = 409
      /\ res[r].status \in {409, 500, 0}

C3_Witness ==
  \E r \in Slots :
    /\ Done(r) /\ req[r].kind = "createCustomer"
    /\ \E c \in loc[r].before.customers : SameTriple(c, req[r].body)
    /\ res[r].status = 409 /\ loc[r].rollbacks = 1

\* C4: no committed create adds a customer row whose (first_name, last_name,
\* phone_number) already belongs to another customer row, under every
\* interleaving of concurrent POST /api/customers requests.
C4_CreateKeepsTripleUnique ==
  \A r \in Slots :
    (Done(r) /\ req[r].kind = "createCustomer" /\ res[r].status = 201) =>
      \A c \in customers : c.id # loc[r].customerId => ~SameTriple(c, req[r].body)

\* C5: every address row's customer_id is the id of an existing customer row.
C5_NoOrphanAddress ==
  \A a \in addresses : Cardinality({c \in customers : c.id = a.customer_id}) = 1

\* C6: POST /api/addresses and POST /api/customers/:id/addresses with a customer
\* id that matches no customer row add no address row.
C6_NoAddressWithoutCustomer ==
  \A r \in Slots :
    ( /\ Done(r) /\ req[r].kind \in {"createAddress", "addCustomerAddress"}
      /\ \A c \in loc[r].before.customers : c.id # req[r].id ) =>
      addresses = loc[r].before.addresses

\* C7: POST /api/customers and PUT /api/customers/:id with a phone_number that
\* is not exactly 10 digits answer 400 and leave both tables unchanged.
C7_BadPhoneRejected ==
  \A r \in Slots :
    ( /\ Done(r) /\ req[r].kind \in {"createCustomer", "updateCustomer"}
      /\ ~IsDigitString(req[r].body.phone_number, 10) ) =>
      /\ res[r].status = 400
      /\ StoreUnchanged(r)
      /\ loc[r].acquired = 0

\* A create with a 10-character phone_number that holds a letter, otherwise
\* valid, answered 400 while the store holds customers.
C7_Witness ==
  \E r \in Slots :
    /\ Done(r) /\ req[r].kind = "createCustomer" /\ res[r].status = 400
    /\ Len(req[r].body.phone_number) = 10
    /\ ~IsDigitString(req[r].body.phone_number, 10)
    /\ IsDigitString(req[r].body.pin_code, 6)
    /\ customers # {}

\* C8: every create path that carries an address (POST /api/customers,
\* POST /api/addresses, POST /api/customers/:id/addresses, PUT /api/customers/:id
\* with an address payload) rejects a pin_code that is not exactly 6 digits (no
\* success response) and inserts no address row.
C8_BadPinRejected ==
  \A r \in Slots :
    ( /\ Done(r)
      /\ \/ req[r].kind \in {"createCustomer", "createAddress", "addCustomerAddress"}
         \/ req[r].kind = "updateCustomer" /\ HasAddressPayload(req[r].body)
      /\ ~Missing(req[r].body.pin_code)
      /\ ~IsDigitString(req[r].body.pin_code, 6) ) =>
      /\ res[r].status \notin {200, 201}
      /\ addresses = loc[r].before.addresses

\* C9: PUT /api/customers/:id with an id that matches no customer row leaves
\* the store unchanged, also when all four address fields are supplied, and
\* answers 404 (500 or nothing only when a store call failed).
C9_UpdateMissingCustomer ==
  \A r \in Slots :
    ( /\ Done(r) /\ req[r].kind = "updateCustomer"
      /\ ~UpdateCustomerInvalid(req[r].body)
      /\ \A c \in loc[r].before.customers : c.id # req[r].id ) =>
      /\ StoreUnchanged(r)
      /\ loc[r].fault = "" => res[r].status = 404
      /\ res[r].status \in {404, 500, 0}

C9_Witness ==
  \E r \in Slots :
    /\ Done(r) /\ req[r].kind = "updateCustomer"
    /\ HasAddressPayload(req[r].body)
    /\ \A c \in customers : c.id # req[r].id
    /\ customers # {}
    /\ res[r].status = 404 /\ loc[r].rollbacks = 1

\* The address rows of customer c in the store.
AddressesOf(c) == {a \in addresses : a.customer_id = c.id}

\* Customer c matches search term q: q is a substring, case ignored, of its
\* first name, last name or phone, or of a field of one of its addresses.
CustomerMatches(c, q) ==
  \/ Trim(q) = ""
  \/ ILike(c.first_name, Trim(q)) \/ ILike(c.last_name, Trim(q))
  \/ ILike(c.phone_number, Trim(q))
  \/ \E a \in AddressesOf(c) :
       \/ ILike(a.address_details, Trim(q)) \/ ILike(a.city, Trim(q))
       \/ ILike(a.state, Trim(q)) \/ ILike(a.pin_code, Trim(q))

Returned(r) == {res[r].data[i].id : i \in 1..Len(res[r].data)}

\* C10: for every store state and every q, GET /api/customers?addressCount=single
\* returns only customers with exactly one address row in the store,
\* addressCount=multiple only customers with two or more, and without the
\* parameter every customer matching the search, zero-address customers included.
C10_AddressCountFilter ==
  \A r \in Slots :
    (Done(r) /\ req[r].kind = "listCustomers" /\ res[r].status = 200) =>
      /\ req[r].addressCount = "single" =>
           \A c \in customers : c.id \in Returned(r) => Cardinality(AddressesOf(c)) = 1
      /\ req[r].addressCount = "multiple" =>
           \A c \in customers : c.id \in Returned(r) => Cardinality(AddressesOf(c)) >= 2
      /\ req[r].addressCount = "" =>
           \A c \in customers : CustomerMatches(c, req[r].q) => c.id \in Returned(r)

\* Reachability of further cases of C2: a successful delete of a customer
\* without addresses, and of one with two.
C2_DeletedWithoutAddresses ==
  \E r \in Slots :
    /\ Done(r) /\ req[r].kind = "deleteCustomer" /\ res[r].status = 200
    /\ \A a \in loc[r].before.addresses : a.customer_id # req[r].id

C2_DeletedWithTwoAddresses ==
  \E r \in Slots :
    /\ Done(r) /\ req[r].kind = "deleteCustomer" /\ res[r].status = 200
    /\ Cardinality({a \in loc[r].before.addresses : a.customer_id = req[r].id}) = 2

\* C11: for every store state, every q and every addressCount (absent, 'single',
\* 'multiple' or any other string) the number GET /customers/count answers is
\* the number of rows GET /customers returns for the same q and addressCount.
C11_CountEqualsListLength ==
  \A r \in Slots :
    (Done(r) /\ req[r].kind = "countCustomers" /\ res[r].status = 200) =>
      ParseCount(res[r].data[1]) = Len(ListCustomers(req[r].q, req[r].addressCount))

\* C12: GET /customers returns at most one row per customer, and the rows are
\* ordered by strictly descending customer id, whatever q and addressCount are.
C12_ListOneRowPerCustomerDescending ==
  \A r \in Slots :
    (Done(r) /\ req[r].kind = "listCustomers" /\ res[r].status = 200) =>
      LET rows == res[r].data IN
      /\ \A i, j \in 1..Len(rows) : i < j => rows[i].id > rows[j].id
      /\ \A i \in 1..Len(rows) : \E c \in customers : c.id = rows[i].id

\* A customer with two addresses (two joined rows) is listed.
C12_Witness ==
  \E r \in Slots :
    /\ Done(r) /\ req[r].kind = "listCustomers" /\ res[r].status = 200
    /\ Len(res[r].data) = 1
    /\ \E c \in customers : Cardinality({a \in addresses : a.customer_id = c.id}) = 2

\* Two customers are listed.
C12_TwoListed ==
  \E r \in Slots :
    /\ Done(r) /\ req[r].kind = "listCustomers" /\ res[r].status = 200
    /\ Len(res[r].data) = 2

\* C13: every customer GET /customers returns, for any q and any addressCount,
\* carries in addresses exactly that customer's address rows (an empty
\* collection when it has none) and in address_count their number.
C13_ListNestsAllAddresses ==
  \A r \in Slots :
    (Done(r) /\ req[r].kind = "listCustomers" /\ res[r].status = 200) =>
      \A i \in 1..Len(res[r].data) :
        LET row == res[r].data[i]
            own == {a \in addresses : a.customer_id = row.id}
        IN row.addresses = own /\ row.address_count = Cardinality(own)

\* C14: GET /customers/:id answers 404 when no customer row has that id;
\* otherwise it answers the customer's fields with, nested, exactly the address
\* rows whose customer_id is that id (none when the customer has none).
C14_GetCustomerById ==
  \A r \in Slots :
    (Done(r) /\ req[r].kind = "getCustomer" /\ loc[r].fault = "") =>
      LET hit == {c \in customers : c.id = req[r].id} IN
      IF hit = {}
      THEN res[r].status = 404 /\ res[r].data = <<>>
      ELSE /\ res[r].status = 200
           /\ res[r].data[1].customer \in hit
           /\ res[r].data[1].addresses = {a \in addresses : a.customer_id = req[r].id}

\* A customer with two addresses is fetched.
C14_Witness ==
  \E r \in Slots :
    /\ Done(r) /\ req[r].kind = "getCustomer" /\ res[r].status = 200
    /\ Cardinality(res[r].data[1].addresses) = 2

\* Further cases of C14: an id no customer has, and a customer without addresses.
C14_NotFound ==
  \E r \in Slots :
    /\ Done(r) /\ req[r].kind = "getCustomer" /\ res[r].status = 404
    /\ customers # {}

C14_NoAddresses ==
  \E r \in Slots :
    /\ Done(r) /\ req[r].kind = "getCustomer" /\ res[r].status = 200
    /\ res[r].data[1].addresses = {}

\* C15: a POST /customers answered 201 has added exactly one customer row, with
\* an id no other customer row has, and exactly one address row, whose
\* customer_id is that id; it has changed no other row, and customerId in the
\* response is that id.
C15_CreateAddsOneCustomerOneAddress ==
  \A r \in Slots :
    (Done(r) /\ req[r].kind = "createCustomer" /\ res[r].status = 201) =>
      LET newCustomers == customers \ loc[r].before.customers
          newAddresses == addresses \ loc[r].before.addresses
          id == res[r].data[1]
      IN /\ loc[r].before.customers \subseteq customers
         /\ loc[r].before.addresses \subseteq addresses
         /\ newCustomers = {CustomerRow(id, req[r].body)}
         /\ id \notin Ids(loc[r].before.customers)
         /\ Cardinality(newAddresses) = 1
         /\ \A a \in newAddresses :
              /\ a = AddressRow(a.id, id, req[r].body)
              /\ a.id \notin Ids(loc[r].before.addresses)

\* A create succeeds on a store that already holds a customer and its address.
C15_Witness ==
  \E r \in Slots :
    /\ Done(r) /\ req[r].kind = "createCustomer" /\ res[r].status = 201
    /\ loc[r].before.customers # {}
    /\ loc[r].before.addresses # {}

\* C16: when a store statement fails inside the transaction of create, update
\* or delete customer after earlier statements of that transaction succeeded
\* (the address INSERT after the customer INSERT, COMMIT, ...), the committed
\* store after the request equals the committed store before it and the
\* response is 500.
C16_FailedTransactionLeavesStore ==
  \A r \in Slots :
    (Done(r) /\ Transactional(r) /\ loc[r].fault \notin {"", "getClient", "BEGIN"}) =>
      StoreUnchanged(r) /\ res[r].status = 500

Positions(log, what) == {i \in 1..Len(log) : log[i] = what}

FailsValidation(request) ==
  LET b == request.body IN
  CASE request.kind = "createCustomer" ->
         \/ Missing(b.first_name) \/ Missing(b.last_name) \/ Missing(b.phone_number)
         \/ ~HasAddressPayload(b) \/ ~PhoneOk(b.phone_number) \/ ~PinOk(b.pin_code)
    [] request.kind = "updateCustomer" ->
         \/ Missing(b.first_name) \/ Missing(b.last_name) \/ Missing(b.phone_number)
         \/ ~PhoneOk(b.phone_number)
         \/ HasAddressPayload(b) /\ ~PinOk(b.pin_code)
    [] request.kind = "createAddress" ->
         request.id = 0 \/ ~HasAddressPayload(b) \/ ~PinOk(b.pin_code)
    [] request.kind = "addCustomerAddress" -> ~HasAddressPayload(b) \/ ~PinOk(b.pin_code)
    [] request.kind = "updateAddress" -> ~HasAddressPayload(b)
    [] OTHER -> FALSE

\* C18: a request that fails validation (a required field missing, a phone
\* number that is not 10 digits, a pin code that is not 6 digits) is answered
\* 400 before any store interaction: no connection acquired, no transaction
\* begun, no statement issued.
C18_ValidationBeforeStore ==
  \A r \in Slots :
    (Done(r) /\ FailsValidation(req[r]) /\ loc[r].fault = "") =>
      /\ res[r].status = 400
      /\ loc[r].log = <<"respond">>
      /\ loc[r].acquired = 0

\* C19: every request to every endpoint ends with exactly one HTTP response,
\* never zero and never two, on every path, also when acquiring the connection
\* fails and when the ROLLBACK issued after a store error fails.
C19_ExactlyOneResponse ==
  \A r \in Slots : Done(r) => res[r].sent = 1

\* C20: a PUT /customers/:id answered 200 leaves every address row that existed
\* before the request as it was; it has inserted exactly one new address row,
\* for that customer, when all four address fields are present, and none
\* otherwise.
C20_UpdateOnlyAddsAddress ==
  \A r \in Slots :
    (Done(r) /\ req[r].kind = "updateCustomer" /\ res[r].status = 200) =>
      LET new == addresses \ loc[r].before.addresses IN
      /\ loc[r].before.addresses \subseteq addresses
      /\ IF HasAddressPayload(req[r].body)
         THEN /\ Cardinality(new) = 1
              /\ \A a \in new : /\ a = AddressRow(a.id, req[r].id, req[r].body)
                                /\ a.id \notin Ids(loc[r].before.addresses)
         ELSE new = {}

\* An update with an address payload succeeds for a customer that already has
\* an address.
C20_Witness ==
  \E r \in Slots :
    /\ Done(r) /\ req[r].kind = "updateCustomer" /\ res[r].status = 200
    /\ HasAddressPayload(req[r].body)
    /\ \E a \in loc[r].before.addresses : a.customer_id = req[r].id

\* A further case of C20: an update without address payload succeeds.
C20_WithoutPayload ==
  \E r \in Slots :
    /\ Done(r) /\ req[r].kind = "updateCustomer" /\ res[r].status = 200
    /\ ~HasAddressPayload(req[r].body)
    /\ loc[r].before.addresses # {}

\* C21: PUT /addresses/:id and DELETE /addresses/:id change at most the address
\* row whose id matches: every customer row, every other address row and the
\* customer_id of the target row stay as they were, and when the id matches no
\* address row the answer is 404 with the whole store unchanged.
C21_AddressWriteTouchesOneRow ==
  \A r \in Slots :
    (Done(r) /\ req[r].kind \in {"updateAddress", "deleteAddress"}) =>
      LET old == loc[r].before.addresses
          target == {a \in old : a.id = req[r].id}
      IN /\ customers = loc[r].before.customers
         /\ \A a \in old : a.id # req[r].id => a \in addresses
         /\ \A a \in addresses \ old :
              \E t \in target : a.id = t.id /\ a.customer_id = t.customer_id
         /\ (target = {} /\ loc[r].fault = "" /\ res[r].status # 400) =>
              res[r].status = 404 /\ StoreUnchanged(r)

\* An address of a customer that has two is updated.
C21_Witness ==
  \E r \in Slots :
    /\ Done(r) /\ req[r].kind = "updateAddress" /\ res[r].status = 200
    /\ Cardinality(loc[r].before.addresses) = 2
    /\ addresses # loc[r].before.addresses

\* Further cases of C21: a delete that succeeds, and an id that matches no row.
C21_Deleted ==
  \E r \in Slots :
    /\ Done(r) /\ req[r].kind = "deleteAddress" /\ res[r].status = 200
    /\ Cardinality(loc[r].before.addresses) = 2

C21_NotFound ==
  \E r \in Slots :
    /\ Done(r) /\ req[r].kind \in {"updateAddress", "deleteAddress"}
    /\ res[r].status = 404 /\ addresses # {}

DeletesAddress(r) == req[r].kind \in {"deleteAddress", "deleteAddressPreCheck"}

C23_EveryPinCodeSixDigits ==
  \A a \in addresses : PinOk(a.pin_code)

Precedes(log, first, then) ==
  \A j \in Positions(log, then) : \E i \in Positions(log, first) : i < j

\* C24: in create customer the steps occur in this order on one connection: the
\* transaction is opened, the duplicate-triple query runs inside it, then, only
\* if no duplicate was found, the customer insert, the address insert and the
\* commit; when a duplicate is found the open transaction is aborted before the
\* conflict is reported.
C24_CreateStepOrder ==
  \A r \in Slots :
    (Done(r) /\ req[r].kind \in {"createCustomer", "createCustomerCallback"}) =>
      LET log == loc[r].log IN
      /\ Precedes(log, "getClient", "BEGIN")
      /\ Precedes(log, "BEGIN", "check")
      /\ Precedes(log, "check", "insertCustomer")
      /\ Positions(log, "insertCustomer") # {} => loc[r].found = 0
      /\ Precedes(log, "insertCustomer", "insertAddress")
      /\ Precedes(log, "insertAddress", "COMMIT")
      /\ res[r].status = 409 =>
           \E i \in Positions(log, "ROLLBACK") :
             \A j \in Positions(log, "respond") : i < j

\* C25: a PUT /customers/:id answered 200 carries the message 'Customer and
\* address updated successfully.' if and only if the request inserted an
\* address row; when it inserted none (address_details present but city, state
\* or pin_code missing, say) the message is 'Customer updated successfully.'.
C25_UpdateMessageTellsInsert ==
  \A r \in Slots :
    (Done(r) /\ req[r].kind = "updateCustomer" /\ res[r].status = 200) =>
      IF addresses \ loc[r].before.addresses # {}
      THEN res[r].message = "Customer and address updated successfully."
      ELSE res[r].message = "Customer updated successfully."

Triple(c) == <<c.first_name, c.last_name, c.phone_number>>

\* C26: in every reachable store state, after any sequence of POST /customers,
\* PUT /customers/:id and DELETE /customers/:id requests, no two customer rows
\* share the same (first_name, last_name, phone_number) triple; an update
\* cannot give a customer the triple of another existing customer.
C26_TriplesUniqueAfterAnyRequest ==
  Cardinality({Triple(c) : c \in customers}) = Cardinality(customers)

TriplesUnique(rows) == Cardinality({Triple(c) : c \in rows}) = Cardinality(rows)

\* C26, amended: a POST /customers or DELETE /customers/:id request, served one
\* at a time, never makes two customer rows share a triple: when no two rows
\* shared one before the request, none do after it. (PUT /customers/:id runs
\* no duplicate check.)
C26_CreateDeleteKeepTriplesUnique ==
  \A r \in Slots :
    ( /\ Done(r) /\ req[r].kind \in {"createCustomer", "deleteCustomer"}
      /\ TriplesUnique(loc[r].before.customers) ) =>
      TriplesUnique(customers)

\* A create is refused for a triple one of the two stored customers has.
C26_Witness ==
  \E r \in Slots :
    /\ Done(r) /\ req[r].kind = "createCustomer" /\ res[r].status = 409
    /\ Cardinality(customers) = 2 /\ TriplesUnique(customers)

\* C27: the body GET /customers/:id returns equals the customer-plus-addresses
\* content of some single committed store state that existed during the
\* request, also when a DELETE /customers/:id or an address create or delete
\* commits between the handler's customer query and its address query.
C27_GetCustomerReadsOneState ==
  \A r \in Slots :
    (Done(r) /\ req[r].kind = "getCustomer" /\ res[r].status = 200) =>
      \E t \in loc[r].history :
        /\ res[r].data[1].customer \in t.customers
        /\ res[r].data[1].addresses = {a \in t.addresses : a.customer_id = req[r].id}

\* The ids of the rows of a response, in the order of the response.
IdsInOrder(rows) == [i \in 1..Len(rows) |-> rows[i].id]

\* C28: for every store state and every q (empty, whitespace-only, or with
\* leading or trailing whitespace), GET /customers/search?q= returns the same
\* customer ids in the same descending-id order as GET /customers?q= without
\* addressCount returns from that store.
C28_SearchAgreesWithList ==
  \A r \in Slots :
    (Done(r) /\ req[r].kind = "searchCustomers" /\ res[r].status = 200) =>
      IdsInOrder(res[r].data) = IdsInOrder(ListCustomers(req[r].q, ""))

\* The two reads agree when q is blank or has no whitespace around it.
C28_SearchAgreesOnTrimmedTerms ==
  \A r \in Slots :
    (Done(r) /\ req[r].kind = "searchCustomers" /\ res[r].status = 200
       /\ (Trim(req[r].q) = "" \/ Trim(req[r].q) = req[r].q)) =>
      IdsInOrder(res[r].data) = IdsInOrder(ListCustomers(req[r].q, ""))

====
